---- MODULE Spec2Model ----
(***************************************************************************)
(* Instantaneous-frequency detectors of package detectors:                 *)
(*   FrequencyDetector      (phase-difference estimator with smoothing)    *)
(*   PLLFrequencyDetector   (second-order digital PLL)                     *)
(*   NewFrequencyDetectorWithConfig (factory)                              *)
(*                                                                         *)
(* float64 is modelled by a small binary floating-point format: a value is *)
(* an integer count of quanta (1.0 = One quanta), every arithmetic result  *)
(* is rounded to PrecBits significant bits, nearest, ties to even.  The    *)
(* components of complex samples also carry the IEEE sign of zero, because *)
(* math.Atan2 distinguishes +0 from -0.                                    *)
(***************************************************************************)
EXTENDS Integers, Sequences, FiniteSets, TLC

\* ------------------------------------------------------------------------
\* float64 arithmetic
\* ------------------------------------------------------------------------

\* number of fraction bits of the quantum: 1.0 is 2^FracBits quanta
FracBits == 8

\* number of significant bits kept by every rounding
PrecBits == 5

One == 2 ^ FracBits

\* math.NaN(): a value that no arithmetic on finite floats produces
NaN == -(2 ^ 30)

IsNaN(x) == x = NaN

\* math.Abs; the absolute value of NaN is NaN
Abs(x) == IF IsNaN(x) THEN NaN ELSE IF x < 0 THEN -x ELSE x

Sign(x) == IF x < 0 THEN -1 ELSE 1

\* the binary exponent of the quotient a/d above the significand width
ShiftOf(q) == CHOOSE sh \in 0 .. 30 : q \div (2 ^ sh) < 2 ^ PrecBits

\* a/d rounded to the nearest integer, ties to even  (a >= 0, d > 0)
NearestEven(a, d) ==
    LET fl == a \div d
        rem == a % d
    IN  IF 2 * rem > d \/ (2 * rem = d /\ fl % 2 = 1) THEN fl + 1 ELSE fl

\* the float nearest to the rational num/den  (den > 0)
RoundQ(num, den) ==
    LET scaled(sh) == Sign(num) * NearestEven(Abs(num), den * 2 ^ sh) * 2 ^ sh
    IN  scaled(ShiftOf(Abs(num) \div den))

Round(x) == RoundQ(x, 1)

\* the arithmetic of floats: an operation on NaN gives NaN
RAdd(x, y) == IF IsNaN(x) \/ IsNaN(y) THEN NaN ELSE Round(x + y)

RSub(x, y) == IF IsNaN(x) \/ IsNaN(y) THEN NaN ELSE Round(x - y)

RMul(x, y) == IF IsNaN(x) \/ IsNaN(y) THEN NaN ELSE RoundQ(x * y, One)

\* y # 0
RDiv(x, y) ==
    IF IsNaN(x) \/ IsNaN(y) THEN NaN ELSE RoundQ(Sign(y) * x * One, Abs(y))

\* a decimal literal num/den of the source, as a float
Lit(num, den) == RoundQ(num * One, den)

\* math.Mod: the result has the sign of x and magnitude below |y|; it is exact
Mod(x, y) == IF IsNaN(x) THEN NaN ELSE Sign(x) * (Abs(x) % Abs(y))

\* math.Pi
Pi == Lit(355, 113)

TwoPi == RMul(Lit(2, 1), Pi)


\* comparisons of floats: every comparison with NaN is false
Less(x, y) == ~IsNaN(x) /\ ~IsNaN(y) /\ x < y

Greater(x, y) == ~IsNaN(x) /\ ~IsNaN(y) /\ x > y

LessEq(x, y) == ~IsNaN(x) /\ ~IsNaN(y) /\ x <= y

\* x + y where either may be NaN
Plus(x, y) == IF IsNaN(x) \/ IsNaN(y) THEN NaN ELSE RAdd(x, y)

\* ------------------------------------------------------------------------
\* complex128: a pair <<re, im>> of components; a component <<k, s>> is the
\* float k with its IEEE sign s (which tells +0 from -0)
\* ------------------------------------------------------------------------

Comp(k, s) == <<k, IF k > 0 THEN 1 ELSE IF k < 0 THEN -1 ELSE s>>

Flt(k) == Comp(k, 1)

NegZero == Comp(0, -1)

Val(c) == c[1]

Sgn(c) == c[2]

\* +Inf, the result of an operation whose value is beyond the largest float
Inf == 2147483647

\* the largest finite float: PrecBits ones below 2^31
MaxFloat == (2 ^ PrecBits - 1) * 2 ^ (31 - PrecBits)

IsInf(x) == Abs(x) = Inf

\* the product of the floats x and y is beyond MaxFloat (compared on
\* quotients, so that no intermediate value leaves the integers)
Overflows(x, y) == y # 0 /\ Abs(x) \div One > MaxFloat \div Abs(y)

CNeg(c) == IF IsNaN(c[1]) THEN c ELSE <<-c[1], -c[2]>>

\* the product of two finite components; it is +-Inf on overflow
CMul(a, b) ==
    IF Overflows(a[1], b[1])
    THEN <<a[2] * b[2] * Inf, a[2] * b[2]>>
    ELSE Comp(RMul(a[1], b[1]), a[2] * b[2])

\* the sum of two products: NaN for Inf + (-Inf), Inf when one term is; a
\* zero sum is -0 only when both terms are -0
CAdd(a, b) ==
    IF IsNaN(a[1]) \/ IsNaN(b[1]) THEN <<NaN, 1>>
    ELSE IF IsInf(a[1]) /\ IsInf(b[1])
         THEN (IF a[1] = b[1] THEN a ELSE <<NaN, 1>>)
    ELSE IF IsInf(a[1]) THEN a
    ELSE IF IsInf(b[1]) THEN b
    ELSE Comp(RAdd(a[1], b[1]), IF a[2] = -1 /\ b[2] = -1 THEN -1 ELSE 1)

CSub(a, b) == CAdd(a, CNeg(b))

complex(re, im) == <<re, im>>

real(z) == z[1]

imag(z) == z[2]

\* complex128 multiplication: (a+bi)(c+di) = (ac-bd) + (ad+bc)i
ComplexMul(z, w) ==
    complex(CSub(CMul(real(z), real(w)), CMul(imag(z), imag(w))),
            CAdd(CMul(real(z), imag(w)), CMul(imag(z), real(w))))

PiOver2 == RDiv(Pi, Lit(2, 1))

PiOver4 == RDiv(Pi, Lit(4, 1))

\* math.Atan2(y, x) for components y, x: exact on the axes and the diagonals
\* and linear in the ratio between them; Atan2(+-0, x >= +0) = +-0,
\* Atan2(+-0, x <= -0) = +-Pi, Atan2(y, +-0) = +-Pi/2.  The result is the
\* float without its sign of zero (no caller reads the sign of a zero angle).
\* Atan2 of a NaN is NaN; Atan2(+-Inf, +-Inf) is on a diagonal, Atan2(y, +-Inf)
\* and Atan2(+-Inf, x) with the other component finite are on an axis.
Atan2(y, x) ==
    LET theta(ay, ax) == IF ay = 0 THEN 0
                         ELSE IF ay = Inf /\ ax = Inf THEN PiOver4
                         ELSE IF ax = Inf THEN 0
                         ELSE IF ay = Inf THEN PiOver2
                         ELSE IF ay <= ax THEN RMul(PiOver4, RDiv(ay, ax))
                         ELSE RSub(PiOver2, RMul(PiOver4, RDiv(ax, ay)))
        angle(t) == IF Sgn(x) = 1 THEN t ELSE RSub(Pi, t)
    IN  IF IsNaN(Val(y)) \/ IsNaN(Val(x))
        THEN NaN
        ELSE Sgn(y) * angle(theta(Abs(Val(y)), Abs(Val(x))))


\* ------------------------------------------------------------------------
\* FrequencyDetector
\* ------------------------------------------------------------------------

\* the outcome of a constructor that panicked: no instance
Panic == [type |-> "panic"]

\* the default smoothing factor set by NewFrequencyDetector
DefaultAlpha == Lit(1, 10)

NewFrequencyDetector(sampleRate) ==
    IF sampleRate <= 0
    THEN Panic
    ELSE [type |-> "FrequencyDetector",
          sampleRate |-> sampleRate,
          prevSignal |-> complex(Flt(0), Flt(0)),
          prevPhase |-> NaN,
          unwrapOffset |-> 0,
          alpha |-> DefaultAlpha,
          smoothedFreq |-> 0,
          smoothInitialized |-> FALSE]

\* SetSmoothingFactor that leaves the smoothing flag as it is
SetSmoothingFactorKeepsFlag(fd, alpha) ==
    LET a == IF alpha < 0 THEN 0 ELSE IF alpha > One THEN One ELSE alpha
    IN  [fd EXCEPT !.alpha = a]

SetSmoothingFactor(fd, alpha) ==
    LET a == IF alpha < 0 THEN 0 ELSE IF alpha > One THEN One ELSE alpha
    IN  [fd EXCEPT !.alpha = a, !.smoothInitialized = FALSE]

\* both detectors' limitFrequency: the Nyquist clamp
limitFrequency(sampleRate, freq) ==
    LET limit(nyquistLimit) ==
            IF Greater(freq, nyquistLimit) THEN nyquistLimit
            ELSE IF Less(freq, -nyquistLimit) THEN -nyquistLimit
            ELSE freq
    IN  limit(RDiv(sampleRate, Lit(2, 1)))

calculatePhase(signal) == Atan2(imag(signal), real(signal))

\* the overflow threshold of preventUnwrapOverflow: 1e6 * 2 * math.Pi
maxOffset == Round(1000000 * 2 * Pi)

preventUnwrapOverflow(fd) ==
    IF Greater(Abs(fd.unwrapOffset), maxOffset)
    THEN [fd EXCEPT !.unwrapOffset = Mod(fd.unwrapOffset, TwoPi),
                    !.prevPhase = Mod(fd.prevPhase, TwoPi)]
    ELSE fd

\* returns the corrected difference and the detector with the offset and the
\* tracked phase advanced by it
unwrapPhaseDiff(fd, phaseDiff) ==
    LET advance(d) ==
            [fd |-> preventUnwrapOverflow(
                        [fd EXCEPT !.unwrapOffset = Plus(fd.unwrapOffset, d),
                                   !.prevPhase = Plus(fd.prevPhase, d)]),
             ret |-> d]
    IN  advance(IF Greater(phaseDiff, Pi) THEN RSub(phaseDiff, TwoPi)
                ELSE IF Less(phaseDiff, -Pi) THEN RAdd(phaseDiff, TwoPi)
                ELSE phaseDiff)

computePhaseDifference(fd, current) ==
    LET conjugatePrev == complex(real(fd.prevSignal), CNeg(imag(fd.prevSignal)))
        phaseDiff(product) == Atan2(imag(product), real(product))
    IN  unwrapPhaseDiff(fd, phaseDiff(ComplexMul(current, conjugatePrev)))

smoothFrequency(fd, currentFreq) ==
    IF ~fd.smoothInitialized
    THEN [fd |-> [fd EXCEPT !.smoothedFreq = currentFreq,
                            !.smoothInitialized = TRUE],
          ret |-> currentFreq]
    ELSE LET store(s) == [fd |-> [fd EXCEPT !.smoothedFreq = s], ret |-> s]
         IN  store(RAdd(RMul(fd.alpha, currentFreq),
                        RMul(RSub(One, fd.alpha), fd.smoothedFreq)))

\* DetectFrequency without the first-call initialisation
DetectFrequencyNoFirstCall(fd, signal) ==
    LET save(sm) == [fd |-> [sm.fd EXCEPT !.prevSignal = signal], ret |-> sm.ret]
        smooth(f, instantaneousFreq) ==
            save(IF Greater(f.alpha, 0)
                 THEN smoothFrequency(f, instantaneousFreq)
                 ELSE [fd |-> f, ret |-> instantaneousFreq])
        estimate(pd) ==
            smooth(pd.fd,
                   limitFrequency(fd.sampleRate,
                                  RDiv(RMul(pd.ret, fd.sampleRate), TwoPi)))
    IN  estimate(computePhaseDifference(fd, signal))

\* after the first call, in the order of the code: the unwrapped phase
\* difference (estimate), the clamped instantaneous frequency, the smoothing
\* when alpha > 0 (smooth), the store of the sample (save)
DetectFrequency(fd, signal) ==
    IF IsNaN(fd.prevPhase)
    THEN [fd |-> [fd EXCEPT !.prevSignal = signal,
                            !.prevPhase = calculatePhase(signal)],
          ret |-> 0]
    ELSE LET save(sm) ==
                 [fd |-> [sm.fd EXCEPT !.prevSignal = signal], ret |-> sm.ret]
             smooth(f, instantaneousFreq) ==
                 save(IF Greater(f.alpha, 0)
                      THEN smoothFrequency(f, instantaneousFreq)
                      ELSE [fd |-> f, ret |-> instantaneousFreq])
             estimate(pd) ==
                 smooth(pd.fd,
                        limitFrequency(fd.sampleRate,
                                       RDiv(RMul(pd.ret, fd.sampleRate), TwoPi)))
         IN  estimate(computePhaseDifference(fd, signal))

\* the loop of ProcessBlock from sample i on: frequencies[i] = DetectFrequency
RECURSIVE ProcessBlockFrom(_, _, _)
ProcessBlockFrom(fd, signals, i) ==
    IF i > Len(signals)
    THEN [fd |-> fd, ret |-> <<>>]
    ELSE LET append(freq, rest) == [fd |-> rest.fd, ret |-> <<freq>> \o rest.ret]
             continue(r) == append(r.ret, ProcessBlockFrom(r.fd, signals, i + 1))
         IN  continue(DetectFrequency(fd, signals[i]))

\* ProcessBlock whose loop starts at the second sample
ProcessBlockSkipsFirst(fd, signals) == ProcessBlockFrom(fd, signals, 2)

ProcessBlock(fd, signals) == ProcessBlockFrom(fd, signals, 1)

\* Reset that leaves the smoothing state as it is
ResetKeepsSmoothing(fd) ==
    [fd EXCEPT !.prevSignal = complex(Flt(0), Flt(0)),
               !.prevPhase = NaN,
               !.unwrapOffset = 0]

Reset(fd) ==
    [fd EXCEPT !.prevSignal = complex(Flt(0), Flt(0)),
               !.prevPhase = NaN,
               !.unwrapOffset = 0,
               !.smoothedFreq = 0,
               !.smoothInitialized = FALSE]

GetInstantaneousPhase(fd) ==
    IF IsNaN(fd.prevPhase)
    THEN 0
    ELSE LET wrap(currentPhase) ==
                 IF Less(currentPhase, 0) THEN RAdd(currentPhase, TwoPi)
                 ELSE currentPhase
         IN  wrap(Mod(RAdd(fd.prevPhase, fd.unwrapOffset), TwoPi))

GetUnwrapOffset(fd) == fd.unwrapOffset

GetSmoothedFrequency(fd) == IF ~fd.smoothInitialized THEN 0 ELSE fd.smoothedFreq


\* ------------------------------------------------------------------------
\* PLLFrequencyDetector
\* ------------------------------------------------------------------------

\* damping := 0.707
damping == Lit(707, 1000)

Four == Lit(4, 1)

naturalFreq(sampleRate, bandwidth) ==
    RDiv(RMul(RMul(Lit(2, 1), Pi), bandwidth), sampleRate)

\* math.Pow(x, 2)
Pow2(x) == RMul(x, x)

\* 4 + 4*damping*naturalFreq + naturalFreq^2
loopDenominator(wn) ==
    RAdd(RAdd(Four, RMul(RMul(Four, damping), wn)), Pow2(wn))

loopAlpha(sampleRate, bandwidth) ==
    LET gain(wn) == RDiv(RMul(RMul(Four, damping), wn), loopDenominator(wn))
    IN  gain(naturalFreq(sampleRate, bandwidth))

loopBeta(sampleRate, bandwidth) ==
    LET gain(wn) == RDiv(RMul(Four, Pow2(wn)), loopDenominator(wn))
    IN  gain(naturalFreq(sampleRate, bandwidth))

\* NewPLLFrequencyDetector without the bandwidth check
NewPLLNoBandwidthCheck(sampleRate, bandwidth) ==
    IF sampleRate <= 0 THEN Panic
    ELSE [type |-> "PLLFrequencyDetector",
          sampleRate |-> sampleRate,
          phase |-> 0,
          frequency |-> 0,
          alpha |-> loopAlpha(sampleRate, bandwidth),
          beta |-> loopBeta(sampleRate, bandwidth),
          bandwidth |-> bandwidth]

NewPLLFrequencyDetector(sampleRate, bandwidth) ==
    IF sampleRate <= 0 THEN Panic
    ELSE IF bandwidth <= 0 THEN Panic
    ELSE [type |-> "PLLFrequencyDetector",
          sampleRate |-> sampleRate,
          phase |-> 0,
          frequency |-> 0,
          alpha |-> loopAlpha(sampleRate, bandwidth),
          beta |-> loopBeta(sampleRate, bandwidth),
          bandwidth |-> bandwidth]

\* SetBandwidth without the guard against non-positive values
SetBandwidthNoGuard(pll, bandwidth) ==
    [pll EXCEPT !.bandwidth = bandwidth,
                !.alpha = loopAlpha(pll.sampleRate, bandwidth),
                !.beta = loopBeta(pll.sampleRate, bandwidth)]

\* SetBandwidth that recomputes alpha and leaves beta stale
SetBandwidthStaleBeta(pll, bandwidth) ==
    IF bandwidth <= 0
    THEN pll
    ELSE [pll EXCEPT !.bandwidth = bandwidth,
                     !.alpha = loopAlpha(pll.sampleRate, bandwidth)]

SetBandwidth(pll, bandwidth) ==
    IF bandwidth <= 0
    THEN pll
    ELSE [pll EXCEPT !.bandwidth = bandwidth,
                     !.alpha = loopAlpha(pll.sampleRate, bandwidth),
                     !.beta = loopBeta(pll.sampleRate, bandwidth)]

\* cmplx.Abs (math.Hypot): the square root of re^2 + im^2, which lies between
\* the larger of |re|, |im| and their sum; as math.Hypot does, it scales large
\* components down before squaring them, so that the squares do not overflow
CAbs(z) ==
    LET root(a, b, n) ==
            CHOOSE r \in (IF a > b THEN a ELSE b) .. a + b :
                r * r <= n /\ (r + 1) * (r + 1) > n
        scaled(a, b, k) == Round(k * root(a \div k, b \div k,
                                          (a \div k) * (a \div k)
                                              + (b \div k) * (b \div k)))
        hypot(a, b) == scaled(a, b, IF a + b >= 2 ^ 14 THEN 2 ^ 12 ELSE 1)
    IN  hypot(Abs(Val(real(z))), Abs(Val(imag(z))))

\* the stability threshold of DetectFrequencyPLL (1e-10)
magnitudeThreshold == 8

\* the normalized-Nyquist bound of limitNormalizedFrequency: 0.5
maxNormalizedFreq == Lit(1, 2)

\* limitNormalizedFrequency that clamps to a whole cycle per sample
limitNormalizedFrequencyWide(frequency) ==
    IF Greater(frequency, TwoPi) THEN TwoPi
    ELSE IF Less(frequency, -TwoPi) THEN -TwoPi
    ELSE frequency

limitNormalizedFrequency(frequency) ==
    IF Greater(frequency, maxNormalizedFreq) THEN maxNormalizedFreq
    ELSE IF Less(frequency, -maxNormalizedFreq) THEN -maxNormalizedFreq
    ELSE frequency

normalizePhase(phase) ==
    LET wrap(m) == IF m < 0 THEN RAdd(m, TwoPi) ELSE m
    IN  wrap(Mod(phase, TwoPi))

\* a component divided by a positive float; a zero quotient keeps the sign
CQuo(a, m) == Comp(RDiv(Val(a), m), Sgn(a))

\* z / complex(m, 0) as complex128 division computes it (Smith's algorithm
\* with ratio = 0/m = +0 and denom = m)
ComplexDivReal(z, m) ==
    complex(CQuo(CAdd(real(z), CMul(imag(z), Flt(0))), m),
            CQuo(CSub(imag(z), CMul(real(z), Flt(0))), m))

\* normalizeSignal that divides every sample by its magnitude
normalizeSignalNoThreshold(signal) ==
    IF CAbs(signal) = 0
    THEN complex(<<NaN, 1>>, <<NaN, 1>>)
    ELSE ComplexDivReal(signal, CAbs(signal))

\* the input brought to unit magnitude, or the unit reference 1+0j when its
\* magnitude is not above the threshold
normalizeSignal(signal) ==
    LET unit(magnitude) ==
            IF Greater(magnitude, magnitudeThreshold)
            THEN ComplexDivReal(signal, magnitude)
            ELSE complex(Flt(One), Flt(0))
    IN  unit(CAbs(signal))

\* the angle of signal * exp(-j*phase): the argument of the signal less the
\* phase, as math.Atan2 returns it, in [-Pi, Pi]
phaseDetector(signal, phase) ==
    LET wrap(d) == IF d > Pi THEN RSub(d, TwoPi)
                   ELSE IF d < -Pi THEN RAdd(d, TwoPi)
                   ELSE d
    IN  wrap(RSub(Atan2(imag(signal), real(signal)), phase))

GetCurrentFrequency(pll) == RDiv(RMul(pll.frequency, pll.sampleRate), TwoPi)

\* DetectFrequencyPLL that advances the phase by the frequency it has just
\* updated
DetectFrequencyPLLFrequencyFirst(pll, signal) ==
    LET output(p1) ==
            [pll |-> p1,
             ret |-> limitFrequency(p1.sampleRate, GetCurrentFrequency(p1))]
        advance(phaseError, frequency) ==
            output([pll EXCEPT
                       !.phase = normalizePhase(
                           RAdd(pll.phase,
                                RAdd(frequency, RMul(pll.alpha, phaseError)))),
                       !.frequency = frequency])
        update(phaseError) ==
            advance(phaseError,
                    limitNormalizedFrequency(
                        RAdd(pll.frequency, RMul(pll.beta, phaseError))))
    IN  update(phaseDetector(normalizeSignal(signal), pll.phase))

\* in the order of the code: the phase error, the update of the phase and
\* of the frequency from the old values (update), their normalisation and
\* clamp, the frequency in Hz of the updated loop (output)
DetectFrequencyPLL(pll, signal) ==
    LET output(p1) ==
            [pll |-> p1,
             ret |-> limitFrequency(p1.sampleRate, GetCurrentFrequency(p1))]
        update(phaseError) ==
            output([pll EXCEPT
                       !.phase = normalizePhase(
                           RAdd(pll.phase,
                                RAdd(pll.frequency, RMul(pll.alpha, phaseError)))),
                       !.frequency = limitNormalizedFrequency(
                           RAdd(pll.frequency, RMul(pll.beta, phaseError)))])
    IN  update(phaseDetector(normalizeSignal(signal), pll.phase))

RECURSIVE ProcessBlockPLLFrom(_, _, _)
ProcessBlockPLLFrom(pll, signals, i) ==
    IF i > Len(signals)
    THEN [pll |-> pll, ret |-> <<>>]
    ELSE LET append(freq, rest) == [pll |-> rest.pll, ret |-> <<freq>> \o rest.ret]
             continue(r) == append(r.ret, ProcessBlockPLLFrom(r.pll, signals, i + 1))
         IN  continue(DetectFrequencyPLL(pll, signals[i]))

ProcessBlockPLL(pll, signals) == ProcessBlockPLLFrom(pll, signals, 1)

\* ResetPLL that clears the phase and keeps the frequency
ResetPLLKeepsFrequency(pll) == [pll EXCEPT !.phase = 0]

ResetPLL(pll) == [pll EXCEPT !.phase = 0, !.frequency = 0]

GetCurrentPhase(pll) == pll.phase

GetCurrentNormalizedFrequency(pll) == pll.frequency

\* ------------------------------------------------------------------------
\* NewFrequencyDetectorWithConfig
\* ------------------------------------------------------------------------

\* the factory without the default bandwidth
ConfigNoDefaultBandwidth(config) ==
    IF config.SampleRate <= 0
    THEN Panic
    ELSE IF config.UsePLL
         THEN NewPLLFrequencyDetector(config.SampleRate, config.PLLBandwidth)
         ELSE LET detector == NewFrequencyDetector(config.SampleRate)
              IN  IF config.SmoothingFactor >= 0
                  THEN SetSmoothingFactor(detector, config.SmoothingFactor)
                  ELSE detector

\* the factory applying the smoothing factor whatever its sign
ConfigAlwaysSmoothing(config) ==
    IF config.SampleRate <= 0
    THEN Panic
    ELSE IF config.UsePLL
         THEN NewPLLFrequencyDetector(
                  config.SampleRate,
                  IF config.PLLBandwidth <= 0
                  THEN RDiv(config.SampleRate, Lit(100, 1))
                  ELSE config.PLLBandwidth)
         ELSE SetSmoothingFactor(NewFrequencyDetector(config.SampleRate),
                                 config.SmoothingFactor)

NewFrequencyDetectorWithConfig(config) ==
    IF config.SampleRate <= 0
    THEN Panic
    ELSE IF config.UsePLL
         THEN NewPLLFrequencyDetector(
                  config.SampleRate,
                  IF config.PLLBandwidth <= 0
                  THEN RDiv(config.SampleRate, Lit(100, 1))
                  ELSE config.PLLBandwidth)
         ELSE LET detector == NewFrequencyDetector(config.SampleRate)
              IN  IF config.SmoothingFactor >= 0
                  THEN SetSmoothingFactor(detector, config.SmoothingFactor)
                  ELSE detector


\* ------------------------------------------------------------------------
\* The caller: one detector instance at a time, built by one of the three
\* constructors and then driven by calls of its methods
\* ------------------------------------------------------------------------

\* det: the instance under use (NoInstance before a constructor returned)
\* call: the last call made, its arguments, its result, whether it panicked
\* steps: the number of method calls made on the instance, a block of n
\*        samples counting as n
VARIABLES det, call, steps

vars == <<det, call, steps>>

\* method calls made on one instance
MaxSteps == 3

\* longest block handed to ProcessBlock / ProcessBlockPLL
MaxBlock == 2

NoInstance == [type |-> "none"]

\* a sample with both parts at 1e-20-like magnitude, below the PLL threshold
tiny == 4

\* a finite component so large that its square is beyond the largest float
huge == 2 ^ 20

Samples ==
    { complex(Flt(One), Flt(0)),
      complex(Flt(0), Flt(One)),
      complex(Flt(-One), Flt(-One)),
      complex(Flt(0), Flt(0)),
      complex(Flt(tiny), Flt(tiny)),
      complex(Flt(One), Flt(-tiny)),
      complex(Flt(huge), Flt(huge)) }

SampleRateArgs == { -One, 0, One, 6 * One }

BandwidthArgs == { -One, 0, One, 2 * One }

SmoothingArgs == { -One, 0, Lit(1, 5), 2 * One }

Configs ==
    [ SampleRate : { 0, 6 * One },
      SmoothingFactor : SmoothingArgs,
      UsePLL : BOOLEAN,
      PLLBandwidth : { -One, 0, 2 * One } ]

\* the samples blocks are made of
BlockSamples ==
    { complex(Flt(One), Flt(0)),
      complex(Flt(0), Flt(One)) }

Blocks == UNION { [1 .. n -> BlockSamples] : n \in 0 .. MaxBlock }

\* no constructor has returned an instance yet
IsNone == det.type = "none"

IsFD == det.type = "FrequencyDetector"

IsPLL == det.type = "PLLFrequencyDetector"

Init ==
    /\ det = NoInstance
    /\ call = [name |-> "none", args |-> <<>>, ret |-> <<>>, panicked |-> FALSE]
    /\ steps = 0

\* a constructor call: the instance it returns, or none when it panicked
Construct(name, args, result) ==
    /\ det' = IF result = Panic THEN NoInstance ELSE result
    /\ call' = [name |-> name, args |-> args, ret |-> <<>>,
                panicked |-> (result = Panic)]
    /\ steps' = 0

\* a method call on the instance: its new state and the values it returns;
\* cost is what it adds to steps
Call(name, args, next, ret, cost) ==
    /\ steps + cost <= MaxSteps
    /\ det' = next
    /\ call' = [name |-> name, args |-> args, ret |-> ret, panicked |-> FALSE]
    /\ steps' = steps + cost

Method(name, args, next, ret) == Call(name, args, next, ret, 1)

\* a call of a method that only reads the instance and returns a value
Read(name, value) ==
    /\ det' = det
    /\ call' = [name |-> name, args |-> <<>>, ret |-> <<value>>, panicked |-> FALSE]
    /\ steps' = steps

\* a block counts as one call per sample, and at least as one
BlockCost(signals) == IF Len(signals) = 0 THEN 1 ELSE Len(signals)

CallNewFrequencyDetector ==
    /\ IsNone
    /\ \E sampleRate \in SampleRateArgs :
           Construct("NewFrequencyDetector", <<sampleRate>>,
                     NewFrequencyDetector(sampleRate))

CallNewPLLFrequencyDetector ==
    /\ IsNone
    /\ \E sampleRate \in SampleRateArgs, bandwidth \in BandwidthArgs :
           Construct("NewPLLFrequencyDetector", <<sampleRate, bandwidth>>,
                     NewPLLFrequencyDetector(sampleRate, bandwidth))

CallNewFrequencyDetectorWithConfig ==
    /\ IsNone
    /\ \E config \in Configs :
           Construct("NewFrequencyDetectorWithConfig", <<config>>,
                     NewFrequencyDetectorWithConfig(config))

CallSetSmoothingFactor ==
    /\ IsFD
    /\ \E alpha \in SmoothingArgs :
           Method("SetSmoothingFactor", <<alpha>>, SetSmoothingFactor(det, alpha), <<>>)

CallDetectFrequency ==
    /\ IsFD
    /\ \E signal \in Samples :
           LET return(r) == Method("DetectFrequency", <<signal>>, r.fd, <<r.ret>>)
           IN  return(DetectFrequency(det, signal))

CallProcessBlock ==
    /\ IsFD
    /\ \E signals \in Blocks :
           LET return(r) ==
                   Call("ProcessBlock", <<signals>>, r.fd, r.ret, BlockCost(signals))
           IN  return(ProcessBlock(det, signals))

CallReset ==
    /\ IsFD
    /\ Method("Reset", <<>>, Reset(det), <<>>)

CallGetInstantaneousPhase ==
    /\ IsFD
    /\ Read("GetInstantaneousPhase", GetInstantaneousPhase(det))

CallGetUnwrapOffset ==
    /\ IsFD
    /\ Read("GetUnwrapOffset", GetUnwrapOffset(det))

CallGetSmoothedFrequency ==
    /\ IsFD
    /\ Read("GetSmoothedFrequency", GetSmoothedFrequency(det))

CallSetBandwidth ==
    /\ IsPLL
    /\ \E bandwidth \in BandwidthArgs :
           Method("SetBandwidth", <<bandwidth>>, SetBandwidth(det, bandwidth), <<>>)

CallDetectFrequencyPLL ==
    /\ IsPLL
    /\ \E signal \in Samples :
           LET return(r) == Method("DetectFrequencyPLL", <<signal>>, r.pll, <<r.ret>>)
           IN  return(DetectFrequencyPLL(det, signal))

CallProcessBlockPLL ==
    /\ IsPLL
    /\ \E signals \in Blocks :
           LET return(r) ==
                   Call("ProcessBlockPLL", <<signals>>, r.pll, r.ret,
                        BlockCost(signals))
           IN  return(ProcessBlockPLL(det, signals))

CallResetPLL ==
    /\ IsPLL
    /\ Method("ResetPLL", <<>>, ResetPLL(det), <<>>)

CallGetCurrentPhase ==
    /\ IsPLL
    /\ Read("GetCurrentPhase", GetCurrentPhase(det))

CallGetCurrentNormalizedFrequency ==
    /\ IsPLL
    /\ Read("GetCurrentNormalizedFrequency", GetCurrentNormalizedFrequency(det))

CallGetCurrentFrequency ==
    /\ IsPLL
    /\ Read("GetCurrentFrequency", GetCurrentFrequency(det))

Next ==
    \/ CallNewFrequencyDetector
    \/ CallNewPLLFrequencyDetector
    \/ CallNewFrequencyDetectorWithConfig
    \/ CallSetSmoothingFactor
    \/ CallDetectFrequency
    \/ CallProcessBlock
    \/ CallReset
    \/ CallGetInstantaneousPhase
    \/ CallGetUnwrapOffset
    \/ CallGetSmoothedFrequency
    \/ CallSetBandwidth
    \/ CallDetectFrequencyPLL
    \/ CallProcessBlockPLL
    \/ CallResetPLL
    \/ CallGetCurrentPhase
    \/ CallGetCurrentNormalizedFrequency
    \/ CallGetCurrentFrequency

Spec == Init /\ [][Next]_vars


\* ------------------------------------------------------------------------
\* Properties
\* ------------------------------------------------------------------------

Constructors ==
    {"NewFrequencyDetector", "NewPLLFrequencyDetector", "NewFrequencyDetectorWithConfig"}

\* the instance has just been returned by a constructor: no method called yet
Fresh == call.name \in Constructors /\ ~call.panicked

nyquist == RDiv(det.sampleRate, Lit(2, 1))

\* C1: the first DetectFrequency call on a freshly constructed
\* FrequencyDetector returns exactly 0, records the sample as the previous
\* sample and its phase as the previous phase, and leaves the unwrap offset,
\* the smoothing factor and the smoothing state unchanged
C1_FirstCallReturnsZero ==
    [][ (IsFD /\ Fresh /\ call'.name = "DetectFrequency")
          => /\ call'.ret = <<0>>
             /\ det' = [det EXCEPT !.prevSignal = call'.args[1],
                                   !.prevPhase = Atan2(imag(call'.args[1]),
                                                       real(call'.args[1]))]
             /\ ~IsNaN(det'.prevPhase) ]_vars

\* C1 witness: a first call on a fresh detector returned 0 and recorded a
\* non-zero sample
C1_Witness ==
    /\ IsFD
    /\ call.name = "DetectFrequency"
    /\ steps = 1
    /\ call.ret = <<0>>
    /\ det.prevSignal = call.args[1]
    /\ Val(imag(det.prevSignal)) # 0
    /\ det.prevPhase # 0

\* C2 (as claimed): every value returned by DetectFrequency and by
\* DetectFrequencyPLL has magnitude at most sampleRate/2
C2_OutputWithinNyquist ==
    call.name \in {"DetectFrequency", "DetectFrequencyPLL"}
        => Abs(call.ret[1]) <= nyquist

FreshFD(sampleRate) ==
    [type |-> "FrequencyDetector",
     sampleRate |-> sampleRate,
     prevSignal |-> complex(Flt(0), Flt(0)),
     prevPhase |-> NaN,
     unwrapOffset |-> 0,
     alpha |-> Lit(1, 10),
     smoothedFreq |-> 0,
     smoothInitialized |-> FALSE]

\* C3: NewFrequencyDetector panics and yields no instance when
\* sampleRate <= 0; NewPLLFrequencyDetector does when sampleRate <= 0 or
\* bandwidth <= 0; otherwise construction succeeds with every field set
C3_ConstructorsValidate ==
    /\ call.name = "NewFrequencyDetector"
         => /\ call.panicked <=> call.args[1] <= 0
            /\ call.panicked => det = NoInstance
            /\ ~call.panicked => det = FreshFD(call.args[1])
    /\ call.name = "NewPLLFrequencyDetector"
         => /\ call.panicked <=> (call.args[1] <= 0 \/ call.args[2] <= 0)
            /\ call.panicked => det = NoInstance
            /\ ~call.panicked =>
                 /\ det = [type |-> "PLLFrequencyDetector",
                           sampleRate |-> call.args[1],
                           phase |-> 0,
                           frequency |-> 0,
                           alpha |-> loopAlpha(call.args[1], call.args[2]),
                           beta |-> loopBeta(call.args[1], call.args[2]),
                           bandwidth |-> call.args[2]]
                 /\ det.alpha > 0
                 /\ det.beta > 0

\* C3 witness: NewPLLFrequencyDetector panicked on the bandwidth alone
C3_Witness ==
    /\ call.name = "NewPLLFrequencyDetector"
    /\ call.panicked
    /\ call.args[1] > 0
    /\ call.args[2] <= 0
    /\ det = NoInstance

C5_ConfigSmoothingFactor ==
    (call.name = "NewFrequencyDetectorWithConfig" /\ ~call.panicked)
      => LET config == call.args[1]
             sf == config.SmoothingFactor
         IN  /\ ~config.UsePLL
                  => det = [FreshFD(config.SampleRate) EXCEPT !.alpha =
                              IF sf < 0 THEN Lit(1, 10)
                              ELSE IF sf > One THEN One
                              ELSE sf]
             /\ config.UsePLL
                  => \A other \in SmoothingArgs :
                       NewFrequencyDetectorWithConfig(
                           [config EXCEPT !.SmoothingFactor = other]) = det

\* C5 witness: a differentiator built with a smoothing factor above 1
C5_Witness ==
    /\ call.name = "NewFrequencyDetectorWithConfig"
    /\ ~call.panicked
    /\ ~call.args[1].UsePLL
    /\ call.args[1].SmoothingFactor > One
    /\ IsFD
    /\ det.alpha = One

\* C6 (as claimed): a differentiator built from a configuration that leaves
\* SmoothingFactor unset (the zero value) has the smoothing factor 0.1 of
\* NewFrequencyDetector
C6_UnsetSmoothingFactorIsDefault ==
    ( /\ call.name = "NewFrequencyDetectorWithConfig"
      /\ ~call.panicked
      /\ ~call.args[1].UsePLL
      /\ call.args[1].SmoothingFactor = 0 )
      => det.alpha = NewFrequencyDetector(call.args[1].SampleRate).alpha

\* C7: SetBandwidth(bw) with bw <= 0 changes nothing of the PLL (bandwidth,
\* alpha, beta, phase, frequency) and raises no error
C7_SetBandwidthIgnoresNonPositive ==
    [][ (call'.name = "SetBandwidth" /\ call'.args[1] <= 0)
          => (det' = det /\ ~call'.panicked) ]_vars

\* C7 witness: a non-positive SetBandwidth on a PLL that has tracked a sample
C7_Witness ==
    /\ IsPLL
    /\ call.name = "SetBandwidth"
    /\ call.args[1] <= 0
    /\ det.frequency # 0
    /\ det.phase # 0

GainsConsistent ==
    IsPLL => /\ det.alpha = loopAlpha(det.sampleRate, det.bandwidth)
             /\ det.beta = loopBeta(det.sampleRate, det.bandwidth)
             /\ det.alpha = NewPLLFrequencyDetector(det.sampleRate, det.bandwidth).alpha
             /\ det.beta = NewPLLFrequencyDetector(det.sampleRate, det.bandwidth).beta
             /\ det.bandwidth > 0

\* C8: in every reachable PLL state alpha and beta are the loop gains of the
\* current bandwidth and sample rate (the pair the constructor computes), and
\* a successful SetBandwidth changes only bandwidth, alpha and beta
C8_GainsFollowBandwidth ==
    /\ []GainsConsistent
    /\ [][ (call'.name = "SetBandwidth" /\ call'.args[1] > 0)
             => /\ det'.bandwidth = call'.args[1]
                /\ det'.phase = det.phase
                /\ det'.frequency = det.frequency
                /\ det'.sampleRate = det.sampleRate ]_vars

\* C8 witness: the bandwidth of a PLL that has tracked a sample was changed
C8_Witness ==
    /\ IsPLL
    /\ call.name = "SetBandwidth"
    /\ call.args[1] > 0
    /\ det.bandwidth = call.args[1]
    /\ det.frequency # 0
    /\ det.alpha # NewPLLFrequencyDetector(det.sampleRate, One).alpha

\* C9 (as claimed): the PLL's frequency is in [-0.5, 0.5] and its phase is in
\* [0, 2*Pi), 2*Pi excluded
C9_PhaseAndFrequencyInRange ==
    IsPLL => /\ Abs(det.frequency) <= maxNormalizedFreq
             /\ 0 <= det.phase
             /\ det.phase < TwoPi


\* C10: ResetPLL sets phase and frequency to 0 and leaves sampleRate,
\* bandwidth, alpha and beta unchanged, so that the PLL is in the state of one
\* freshly constructed with the current bandwidth
C10_ResetPLLRestoresFreshState ==
    [][ call'.name = "ResetPLL"
          => /\ det' = [det EXCEPT !.phase = 0, !.frequency = 0]
             /\ det' = NewPLLFrequencyDetector(det.sampleRate, det.bandwidth) ]_vars

\* C10 witness: ResetPLL was called after the bandwidth was changed and a
\* sample tracked
C10_Witness ==
    /\ IsPLL
    /\ call.name = "ResetPLL"
    /\ steps >= 3
    /\ det.phase = 0
    /\ det.frequency = 0

\* the state of a differentiator that has consumed no sample since it was
\* constructed or reset
Unstarted(d) ==
    /\ d.prevSignal = complex(Flt(0), Flt(0))
    /\ IsNaN(d.prevPhase)
    /\ d.unwrapOffset = 0
    /\ d.smoothedFreq = 0
    /\ ~d.smoothInitialized

\* the calls that hand samples to the differentiator
Consuming == {"DetectFrequency", "ProcessBlock"}

\* C11: Reset puts the differentiator in the state of a fresh one of the same
\* sample rate and smoothing factor (previous sample zero, previous phase
\* unset, unwrap offset 0, smoothing uninitialised); the state stays so until
\* a sample is consumed, and in it the next DetectFrequency returns 0 and
\* GetInstantaneousPhase and GetSmoothedFrequency return 0
C11_ResetRestoresFreshState ==
    [][ /\ call'.name = "Reset"
          => /\ det' = [FreshFD(det.sampleRate) EXCEPT !.alpha = det.alpha]
             /\ Unstarted(det')
        /\ (IsFD /\ Unstarted(det) /\ call'.name \notin Consuming)
          => Unstarted(det')
        /\ (IsFD /\ Unstarted(det))
          => /\ GetInstantaneousPhase(det) = 0
             /\ GetSmoothedFrequency(det) = 0
             /\ \A signal \in Samples : DetectFrequency(det, signal).ret = 0
             /\ call'.name = "DetectFrequency" => call'.ret = <<0>>
             /\ call'.name \in {"GetInstantaneousPhase", "GetSmoothedFrequency"}
                  => call'.ret = <<0>> ]_vars

\* C11 witness: Reset was the last of three method calls on a differentiator
\* whose smoothing factor had been changed
C11_Witness ==
    /\ IsFD
    /\ call.name = "Reset"
    /\ steps >= 3
    /\ Unstarted(det)
    /\ det.alpha # Lit(1, 10)

\* n successive single-sample calls on a differentiator: the state they leave
\* and the values they return, the last call taken after all the others
RECURSIVE SuccessiveCalls(_, _)
SuccessiveCalls(fd, signals) ==
    IF signals = <<>>
    THEN [fd |-> fd, ret |-> <<>>]
    ELSE LET before == SuccessiveCalls(fd, SubSeq(signals, 1, Len(signals) - 1))
             last == DetectFrequency(before.fd, signals[Len(signals)])
         IN  [fd |-> last.fd, ret |-> Append(before.ret, last.ret)]

\* the same for the PLL
RECURSIVE SuccessiveCallsPLL(_, _)
SuccessiveCallsPLL(pll, signals) ==
    IF signals = <<>>
    THEN [pll |-> pll, ret |-> <<>>]
    ELSE LET before == SuccessiveCallsPLL(pll, SubSeq(signals, 1, Len(signals) - 1))
             last == DetectFrequencyPLL(before.pll, signals[Len(signals)])
         IN  [pll |-> last.pll, ret |-> Append(before.ret, last.ret)]

\* C12: ProcessBlock and ProcessBlockPLL on n samples return n values, value
\* i being the result of the i-th of n successive single-sample calls, and
\* leave the state those calls leave; a block split in two consecutive blocks
\* gives the same values and state; an empty block changes nothing
C12_BlockEqualsSuccessiveCalls ==
    [][ /\ call'.name = "ProcessBlock"
          => LET signals == call'.args[1]
                 n == Len(signals)
             IN  /\ Len(call'.ret) = n
                 /\ call'.ret = SuccessiveCalls(det, signals).ret
                 /\ det' = SuccessiveCalls(det, signals).fd
                 /\ n = 0 => det' = det
                 /\ \A k \in 0 .. n :
                      LET a == ProcessBlock(det, SubSeq(signals, 1, k))
                          b == ProcessBlock(a.fd, SubSeq(signals, k + 1, n))
                      IN  b.fd = det' /\ a.ret \o b.ret = call'.ret
        /\ call'.name = "ProcessBlockPLL"
          => LET signals == call'.args[1]
                 n == Len(signals)
             IN  /\ Len(call'.ret) = n
                 /\ call'.ret = SuccessiveCallsPLL(det, signals).ret
                 /\ det' = SuccessiveCallsPLL(det, signals).pll
                 /\ n = 0 => det' = det
                 /\ \A k \in 0 .. n :
                      LET a == ProcessBlockPLL(det, SubSeq(signals, 1, k))
                          b == ProcessBlockPLL(a.pll, SubSeq(signals, k + 1, n))
                      IN  b.pll = det' /\ a.ret \o b.ret = call'.ret ]_vars

\* C12 witness: a block of two samples processed by a differentiator that had
\* consumed a sample before, the second value being a non-zero frequency
C12_Witness ==
    /\ IsFD
    /\ call.name = "ProcessBlock"
    /\ Len(call.args[1]) = 2
    /\ Len(call.ret) = 2
    /\ call.ret[2] # 0
    /\ steps = 3

Conj(z) == complex(real(z), CNeg(imag(z)))

\* the angle of cur * conj(prev), as math.Atan2 returns it
PhaseStep(prev, cur) ==
    LET product == ComplexMul(cur, Conj(prev))
    IN  Atan2(imag(product), real(product))

\* the frequency of a phase step, clamped to the Nyquist range
StepFrequency(sampleRate, step) ==
    limitFrequency(sampleRate, RDiv(RMul(step, sampleRate), TwoPi))

\* C13: SetSmoothingFactor(a) stores a clamped into [0,1], marks the smoothing
\* uninitialised and changes nothing else (previous sample, previous phase and
\* unwrap offset in particular); the next DetectFrequency that is not a first
\* call returns the clamped instantaneous frequency itself
C13_SetSmoothingFactorRestartsSmoothing ==
    [][ call'.name = "SetSmoothingFactor"
          => LET a == call'.args[1]
             IN  /\ det'.alpha = IF a < 0 THEN 0 ELSE IF a > One THEN One ELSE a
                 /\ 0 <= det'.alpha /\ det'.alpha <= One
                 /\ ~det'.smoothInitialized
                 /\ det' = [det EXCEPT !.alpha = det'.alpha,
                                       !.smoothInitialized = FALSE]
                 /\ det'.prevSignal = det.prevSignal
                 /\ det'.prevPhase = det.prevPhase
                 /\ det'.unwrapOffset = det.unwrapOffset
                 /\ ~IsNaN(det'.prevPhase)
                      => \A signal \in Samples :
                           DetectFrequency(det', signal).ret =
                               StepFrequency(det'.sampleRate,
                                             PhaseStep(det'.prevSignal, signal)) ]_vars

\* C13 witness: a smoothing factor above 1 was set on a differentiator whose
\* smoothing held a non-zero value
C13_Witness ==
    /\ IsFD
    /\ call.name = "SetSmoothingFactor"
    /\ call.args[1] > One
    /\ det.alpha = One
    /\ ~det.smoothInitialized
    /\ det.smoothedFreq # 0
    /\ ~IsNaN(det.smoothedFreq)
    /\ ~IsNaN(det.prevPhase)

\* C14 (as claimed): GetInstantaneousPhase returns 0 while no sample has been
\* consumed, returns what a call of it on the same state computes and leaves
\* the state alone, and its result is in [0, 2*Pi), 2*Pi excluded, in every
\* reachable state
C14_InstantaneousPhaseInRange ==
    /\ IsFD => /\ IsNaN(det.prevPhase) => GetInstantaneousPhase(det) = 0
               /\ LessEq(0, GetInstantaneousPhase(det))
               /\ Less(GetInstantaneousPhase(det), TwoPi)
    /\ call.name = "GetInstantaneousPhase"
         => call.ret = <<GetInstantaneousPhase(det)>>

\* the unwrap offset after the samples of signals, each adding the angle of
\* its product with the conjugate of the sample before it
RECURSIVE SumOfSteps(_, _, _)
SumOfSteps(offset, prev, signals) ==
    IF signals = <<>>
    THEN offset
    ELSE SumOfSteps(RAdd(offset, PhaseStep(prev, Head(signals))),
                    Head(signals), Tail(signals))

\* C15 (on the runs of the bounded model): the unwrap offset is 0 until a
\* second sample is consumed, each later sample adds the angle of its product
\* with the conjugate of the sample before it, and GetUnwrapOffset reports the
\* sum and changes nothing
C15_UnwrapOffsetIsCumulativeSum ==
    [][ /\ (IsFD /\ IsNaN(det.prevPhase) /\ call'.name = "DetectFrequency")
          => det'.unwrapOffset = det.unwrapOffset
        /\ (IsFD /\ Unstarted(det) /\ call'.name = "ProcessBlock"
                 /\ call'.args[1] # <<>>)
          => det'.unwrapOffset =
                 SumOfSteps(0, Head(call'.args[1]), Tail(call'.args[1]))
        /\ (IsFD /\ ~IsNaN(det.prevPhase) /\ call'.name \in Consuming)
          => det'.unwrapOffset =
                 SumOfSteps(det.unwrapOffset, det.prevSignal,
                            IF call'.name = "ProcessBlock"
                            THEN call'.args[1] ELSE call'.args)
        /\ (IsFD /\ call'.name \notin Consuming \cup {"Reset"})
          => det'.unwrapOffset = det.unwrapOffset
        /\ call'.name = "GetUnwrapOffset"
          => call'.ret = <<det.unwrapOffset>> /\ det' = det ]_vars

\* C16 (as claimed): the phase difference DetectFrequency uses for a sample
\* after the first is the angle of current * conj(previous), lies in
\* [-Pi, Pi], and gives a frequency that does not exceed sampleRate/2 in
\* magnitude before the clamp
C16_PhaseDifferenceIsSmallestAngle ==
    [][ (IsFD /\ ~IsNaN(det.prevPhase) /\ call'.name = "DetectFrequency")
          => LET d == computePhaseDifference(det, call'.args[1]).ret
             IN  /\ d = PhaseStep(det.prevSignal, call'.args[1])
                 /\ LessEq(-Pi, d)
                 /\ LessEq(d, Pi)
                 /\ LessEq(Abs(RDiv(RMul(d, det.sampleRate), TwoPi)),
                           nyquist) ]_vars

\* the differentiator with the offset and the tracked phase reduced modulo
\* 2*Pi, as the overflow guard leaves them
Folded(fd) ==
    [fd EXCEPT !.unwrapOffset = Mod(fd.unwrapOffset, TwoPi),
               !.prevPhase = Mod(fd.prevPhase, TwoPi)]

\* C17 (as claimed): after every DetectFrequency call the magnitude of the
\* unwrap offset is at most maxOffset; an update that pushes it above
\* maxOffset reduces the offset and the tracked phase modulo 2*Pi in the same
\* call, any other update stores the sums; and a later DetectFrequency
\* returns the same value on the folded state as on the unfolded one
C17_OverflowGuard ==
    [][ (IsFD /\ ~IsNaN(det.prevPhase) /\ call'.name = "DetectFrequency")
          => LET d == PhaseStep(det.prevSignal, call'.args[1])
                 advanced == [det EXCEPT !.unwrapOffset = Plus(det.unwrapOffset, d),
                                         !.prevPhase = Plus(det.prevPhase, d)]
             IN  /\ LessEq(Abs(det'.unwrapOffset), maxOffset)
                 /\ det'.unwrapOffset =
                        IF Greater(Abs(advanced.unwrapOffset), maxOffset)
                        THEN Folded(advanced).unwrapOffset
                        ELSE advanced.unwrapOffset
                 /\ det'.prevPhase =
                        IF Greater(Abs(advanced.unwrapOffset), maxOffset)
                        THEN Folded(advanced).prevPhase
                        ELSE advanced.prevPhase
                 /\ \A signal \in Samples :
                        DetectFrequency(Folded(det'), signal).ret =
                            DetectFrequency(det', signal).ret ]_vars

\* a frequency that is neither NaN nor infinite
IsFinite(x) == ~IsNaN(x) /\ ~IsInf(x)

\* C18 (as claimed): in every reachable state each estimator returns a finite,
\* non-NaN frequency for every sample, the zero sample and the tiny samples
\* included, and no per-sample call panics
C18_OutputsFinite ==
    /\ IsFD => \A signal \in Samples : IsFinite(DetectFrequency(det, signal).ret)
    /\ IsPLL => \A signal \in Samples : IsFinite(DetectFrequencyPLL(det, signal).ret)
    /\ call.name \in {"DetectFrequency", "DetectFrequencyPLL"}
         => ~call.panicked /\ IsFinite(call.ret[1])

\* the phase advance from prev to cur, the difference of the two phases
\* brought into [-Pi, Pi]
PhaseAdvance(prev, cur) ==
    LET wrap(d) == IF Greater(d, Pi) THEN RSub(d, TwoPi)
                   ELSE IF Less(d, -Pi) THEN RAdd(d, TwoPi)
                   ELSE d
    IN  wrap(RSub(calculatePhase(cur), calculatePhase(prev)))

NonZero(signal) == Val(real(signal)) # 0 \/ Val(imag(signal)) # 0

\* x and y differ by at most a few units in the last place
Close(x, y) ==
    /\ ~IsNaN(x)
    /\ ~IsNaN(y)
    /\ Abs(x - y) * 2 ^ (PrecBits - 2) <= (IF Abs(x) > Abs(y) THEN Abs(x) ELSE Abs(y))

\* C20 (as claimed): when the samples are non-zero and the phase has advanced
\* by the same step below Pi in magnitude at every sample (so that the
\* smoothing state is unset or holds the frequency of that step), the output
\* of DetectFrequency is step * sampleRate / (2*Pi) up to rounding, whatever
\* the smoothing factor, and exactly 0 when the sample repeats the previous one
C20_ConstantStepFrequency ==
    [][ (IsFD /\ call'.name = "DetectFrequency" /\ ~IsNaN(det.prevPhase))
          => LET step == PhaseAdvance(det.prevSignal, call'.args[1])
                 frequency == RDiv(RMul(step, det.sampleRate), TwoPi)
             IN  ( /\ NonZero(det.prevSignal)
                   /\ NonZero(call'.args[1])
                   /\ Less(Abs(step), Pi)
                   /\ ~det.smoothInitialized \/ det.smoothedFreq = frequency )
                 => /\ Close(call'.ret[1], frequency)
                    /\ call'.args[1] = det.prevSignal => call'.ret[1] = 0 ]_vars

\* C21 (as claimed): the previous phase is unset after a constructor and
\* after Reset, every call that consumes a sample leaves it set, and no other
\* call changes whether it is set; so it is unset exactly while no sample has
\* been consumed since construction or the last Reset
C21_PrevPhaseUnsetOnlyBeforeFirstSample ==
    [][ /\ call'.name \in {"NewFrequencyDetector", "NewFrequencyDetectorWithConfig",
                           "Reset"} /\ det'.type = "FrequencyDetector"
          => IsNaN(det'.prevPhase)
        /\ (IsFD /\ call'.name = "DetectFrequency")
          => ~IsNaN(det'.prevPhase)
        /\ (IsFD /\ call'.name = "ProcessBlock" /\ call'.args[1] # <<>>)
          => ~IsNaN(det'.prevPhase)
        /\ (IsFD /\ call'.name \notin Consuming \cup {"Reset"})
          => IsNaN(det'.prevPhase) <=> IsNaN(det.prevPhase) ]_vars

\* the phase error of a PLL step: the angle of the normalised input times
\* exp(-j*phase), the phase being the one before the step
PhaseError(pll, signal) == phaseDetector(normalizeSignal(signal), pll.phase)

\* C22: a DetectFrequencyPLL step takes the phase error e from the phase
\* before the step, sets phase to wrap(phase + frequency + alpha*e) with the
\* frequency from before the step, sets frequency to
\* clamp(frequency + beta*e), changes nothing else, and returns the Hz value
\* of the frequency after the clamp
C22_PLLStep ==
    [][ call'.name = "DetectFrequencyPLL"
          => LET e == PhaseError(det, call'.args[1])
             IN  /\ det'.phase =
                        normalizePhase(RAdd(det.phase,
                                            RAdd(det.frequency, RMul(det.alpha, e))))
                 /\ det'.frequency =
                        limitNormalizedFrequency(RAdd(det.frequency,
                                                      RMul(det.beta, e)))
                 /\ det' = [det EXCEPT !.phase = det'.phase,
                                       !.frequency = det'.frequency]
                 /\ call'.ret = <<limitFrequency(det'.sampleRate,
                                                GetCurrentFrequency(det'))>> ]_vars

\* C22 witness: a step from a non-zero frequency with a non-zero phase error,
\* in which the new frequency was clamped and differs from the old one
C22_Witness ==
    /\ IsPLL
    /\ call.name = "DetectFrequencyPLL"
    /\ steps >= 2
    /\ det.frequency = maxNormalizedFreq
    /\ det.phase # 0
    /\ call.ret[1] # 0

\* the exponential moving average of smoothFrequency
Blend(alpha, new, previous) ==
    RAdd(RMul(alpha, new), RMul(RSub(One, alpha), previous))

\* C23 (as claimed): with a smoothing factor above 0 the first estimate after
\* a constructor, Reset or SetSmoothingFactor is returned as it is and seeds
\* the average; once the average is seeded every DetectFrequency returns
\* alpha*new + (1-alpha)*previous output, new being the clamped instantaneous
\* frequency and the previous output the value the DetectFrequency call
\* before it returned; with a smoothing factor of 0 the clamped frequency is
\* returned and the smoothing state is untouched
C23_SmoothingBlend ==
    [][ /\ (det'.type = "FrequencyDetector"
              /\ call'.name \in Constructors \cup {"Reset", "SetSmoothingFactor"})
          => ~det'.smoothInitialized
        /\ (IsFD /\ call'.name = "DetectFrequency")
          => LET new == StepFrequency(det.sampleRate,
                                      PhaseStep(det.prevSignal, call'.args[1]))
             IN  /\ (~IsNaN(det.prevPhase) /\ det.alpha > 0 /\ ~det.smoothInitialized)
                      => /\ call'.ret = <<new>>
                         /\ det'.smoothedFreq = new
                         /\ det'.smoothInitialized
                 /\ (det.alpha > 0 /\ det.smoothInitialized)
                      => /\ call'.ret = <<Blend(det.alpha, new, det.smoothedFreq)>>
                         /\ det'.smoothedFreq = call'.ret[1]
                         /\ call.name = "DetectFrequency"
                              => det.smoothedFreq = call.ret[1]
                 /\ (~IsNaN(det.prevPhase) /\ det.alpha = 0)
                      => /\ call'.ret = <<new>>
                         /\ det'.smoothedFreq = det.smoothedFreq
                         /\ det'.smoothInitialized = det.smoothInitialized ]_vars

\* the unit reference 1+0j
UnitReference == complex(Flt(One), Flt(0))

\* C24: a DetectFrequencyPLL step on a sample of magnitude at most the
\* threshold (the zero sample included) returns the value and leaves the
\* state that the step on the unit reference 1+0j would; on a sample of larger
\* magnitude the phase error is taken from the sample divided by its magnitude
C24_SmallSampleIsUnitReference ==
    [][ call'.name = "DetectFrequencyPLL"
          => LET signal == call'.args[1]
                 magnitude == CAbs(signal)
             IN  /\ LessEq(magnitude, magnitudeThreshold)
                      => /\ det' = DetectFrequencyPLL(det, UnitReference).pll
                         /\ call'.ret = <<DetectFrequencyPLL(det, UnitReference).ret>>
                 /\ Greater(magnitude, magnitudeThreshold)
                      => /\ normalizeSignal(signal) = ComplexDivReal(signal, magnitude)
                         /\ PhaseError(det, signal) =
                                phaseDetector(ComplexDivReal(signal, magnitude),
                                              det.phase)
                         /\ det'.frequency =
                                limitNormalizedFrequency(
                                    RAdd(det.frequency,
                                         RMul(det.beta,
                                              phaseDetector(
                                                  ComplexDivReal(signal, magnitude),
                                                  det.phase)))) ]_vars

\* C24 witness: a PLL that had tracked a sample off the real axis was given
\* the tiny sample, whose own angle is not that of the unit reference
C24_Witness ==
    /\ IsPLL
    /\ call.name = "DetectFrequencyPLL"
    /\ call.args[1] = complex(Flt(tiny), Flt(tiny))
    /\ steps >= 2
    /\ det.frequency # 0
    /\ det.phase # 0

\* C25 (as claimed): in a DetectFrequency call after the first whose sample
\* or stored previous sample is zero, the conjugate product is zero and its
\* angle is 0: the unwrap offset and the previous phase are unchanged, the
\* instantaneous frequency before smoothing is 0, the sample replaces the
\* stored previous sample, and the call does not panic
C25_ZeroSampleGivesZeroAngle ==
    [][ ( /\ IsFD
          /\ call'.name = "DetectFrequency"
          /\ ~IsNaN(det.prevPhase)
          /\ ~NonZero(call'.args[1]) \/ ~NonZero(det.prevSignal) )
          => /\ ~NonZero(ComplexMul(call'.args[1], Conj(det.prevSignal)))
             /\ PhaseStep(det.prevSignal, call'.args[1]) = 0
             /\ det'.unwrapOffset = det.unwrapOffset
             /\ det'.prevPhase = det.prevPhase
             /\ StepFrequency(det.sampleRate,
                              PhaseStep(det.prevSignal, call'.args[1])) = 0
             /\ (det.alpha = 0 \/ ~det.smoothInitialized) => call'.ret = <<0>>
             /\ det'.prevSignal = call'.args[1]
             /\ ~call'.panicked ]_vars

\* the largest frequency the PLL reports: sampleRate / (4*Pi)
MaxPLLFrequency(sampleRate) == RDiv(sampleRate, RMul(Lit(4, 1), Pi))

ModTwoPi(x) == x % TwoPi

\* C29 (as claimed): once a sample has been consumed, prevPhase - unwrapOffset
\* is the phase of the first sample: the first call stores that phase with the
\* offset at 0, and every later sample leaves the previous phase set and the
\* difference as it was (congruent modulo 2*Pi when the overflow guard
\* folds); hence GetInstantaneousPhase is the first phase plus twice the
\* accumulated phase difference, modulo 2*Pi
C29_PhaseMinusOffsetIsFirstPhase ==
    [][ /\ (IsFD /\ Unstarted(det) /\ call'.name = "DetectFrequency")
          => det'.prevPhase - det'.unwrapOffset = calculatePhase(call'.args[1])
        /\ (IsFD /\ ~IsNaN(det.prevPhase) /\ call'.name = "DetectFrequency")
          => /\ ~IsNaN(det'.prevPhase)
             /\ IF Greater(Abs(Plus(det.unwrapOffset,
                                    PhaseStep(det.prevSignal, call'.args[1]))),
                           maxOffset)
                THEN ModTwoPi(det'.prevPhase - det'.unwrapOffset) =
                         ModTwoPi(det.prevPhase - det.unwrapOffset)
                ELSE det'.prevPhase - det'.unwrapOffset =
                         det.prevPhase - det.unwrapOffset
             /\ GetInstantaneousPhase(det') =
                    ModTwoPi((det'.prevPhase - det'.unwrapOffset)
                                 + 2 * det'.unwrapOffset) ]_vars

\* C30 (as claimed): smoothing is initialised only with a smoothing factor
\* above 0 and only by a call that consumes a sample; GetSmoothedFrequency
\* returns 0 while smoothing is uninitialised, otherwise the value the most
\* recent DetectFrequency call returned, and it leaves the state as it is
C30_SmoothedFrequencyIsLastOutput ==
    [][ /\ (det'.type = "FrequencyDetector" /\ det'.smoothInitialized)
          => /\ det'.alpha > 0
             /\ (IsFD /\ det.smoothInitialized) \/ call'.name \in Consuming
        /\ (det'.type = "FrequencyDetector" /\ ~det'.smoothInitialized)
          => GetSmoothedFrequency(det') = 0
        /\ (call'.name = "DetectFrequency" /\ det'.smoothInitialized)
          => GetSmoothedFrequency(det') = call'.ret[1]
        /\ (call'.name = "ProcessBlock" /\ call'.ret # <<>> /\ det'.smoothInitialized)
          => GetSmoothedFrequency(det') = call'.ret[Len(call'.ret)]
        /\ (IsFD /\ call'.name \notin Consuming \cup {"Reset", "SetSmoothingFactor"})
          => GetSmoothedFrequency(det') = GetSmoothedFrequency(det)
        /\ call'.name = "GetSmoothedFrequency"
          => /\ det' = det
             /\ call'.ret = <<IF det.smoothInitialized THEN det.smoothedFreq ELSE 0>> ]_vars

\* ------------------------------------------------------------------------
\* HilbertTransform (package hilbert): FIR Hilbert transformer with a ring
\* buffer as delay line.  Slices are sequences indexed from 1: element i of
\* the source is element i + 1 here.
\* ------------------------------------------------------------------------

\* math.Cos: exact at the multiples of Pi/2 and linear between them
Cos(x) ==
    LET tri(m) == IF m <= Pi THEN RDiv(PiOver2 - m, PiOver2)
                  ELSE RDiv(m - (Pi + PiOver2), PiOver2)
    IN  tri(Abs(x) % TwoPi)

\* the float of an integer
Float(n) == n * One

\* a slice of n zeros
Zeros(n) == [i \in 1 .. n |-> 0]

\* coefficient n of the filter of the given order
Coefficient(order, n) ==
    LET center == order \div 2
        k == n - center
        idealCoeff == RDiv(Lit(2, 1), RMul(Pi, Float(k)))
        window == RSub(Lit(54, 100),
                       RMul(Lit(46, 100),
                            Cos(RDiv(RMul(RMul(Lit(2, 1), Pi), Float(n)),
                                     Float(order - 1)))))
    IN  IF n = center THEN 0
        ELSE IF k % 2 # 0 THEN RMul(idealCoeff, window)
        ELSE 0

calculateCoefficients(ht) ==
    [ht EXCEPT !.coeffs = [i \in 1 .. ht.order |-> Coefficient(ht.order, i - 1)]]

\* an even order is raised by one; make panics on a negative length
NewHilbertTransform(sampleRate, order) ==
    LET build(odd) ==
            IF odd < 0
            THEN Panic
            ELSE calculateCoefficients(
                     [type |-> "HilbertTransform",
                      order |-> odd,
                      coeffs |-> Zeros(odd),
                      delayLine |-> Zeros(odd),
                      writeIndex |-> 0,
                      groupDelay |-> odd \div 2])
    IN  build(IF order % 2 = 0 THEN order + 1 ELSE order)

\* the loop of Tick from tap i on: imagOutput += coeffs[i] * delayLine[...]
RECURSIVE FilterFrom(_, _, _, _)
FilterFrom(ht, delayLine, i, imagOutput) ==
    IF i >= ht.order
    THEN imagOutput
    ELSE FilterFrom(ht, delayLine, i + 1,
                    RAdd(imagOutput,
                         RMul(ht.coeffs[i + 1],
                              delayLine[((ht.writeIndex - i + ht.order) % ht.order) + 1])))

\* Tick that reads the real part from the slot just written
TickNoDelay(ht, input) ==
    LET written == [ht.delayLine EXCEPT ![ht.writeIndex + 1] = input]
    IN  [ht |-> [ht EXCEPT !.delayLine = written,
                           !.writeIndex = (ht.writeIndex + 1) % ht.order],
         ret |-> complex(written[ht.writeIndex + 1], FilterFrom(ht, written, 0, 0))]

\* in the order of the code: the write into the ring buffer, the filter
\* output, the delayed input, the advance of the write index
Tick(ht, input) ==
    LET written == [ht.delayLine EXCEPT ![ht.writeIndex + 1] = input]
        delayedIndex == (ht.writeIndex - ht.groupDelay + ht.order) % ht.order
    IN  [ht |-> [ht EXCEPT !.delayLine = written,
                           !.writeIndex = (ht.writeIndex + 1) % ht.order],
         ret |-> complex(written[delayedIndex + 1], FilterFrom(ht, written, 0, 0))]

\* HilbertTransform.Reset that leaves the write index where it is
ResetHilbertKeepsIndex(ht) == [ht EXCEPT !.delayLine = Zeros(ht.order)]

\* HilbertTransform.Reset
ResetHilbert(ht) == [ht EXCEPT !.delayLine = Zeros(ht.order), !.writeIndex = 0]

GetGroupDelay(ht) == ht.groupDelay

GetCoefficients(ht) == ht.coeffs

\* calls made on one transformer
MaxTicks == 5

\* largest order handed to NewHilbertTransform
MaxOrder == 4

HilbertOrders == -1 .. MaxOrder

\* inputs of Tick, in [-1.0, 1.0]
TickInputs == { -One, 0, One \div 2 }

IsHilbert == det.type = "HilbertTransform"

\* a method call on the transformer: its new state and the values it returns
CallHilbert(name, args, next, ret) ==
    /\ steps < MaxTicks
    /\ det' = next
    /\ call' = [name |-> name, args |-> args, ret |-> ret, panicked |-> FALSE]
    /\ steps' = steps + 1

CallNewHilbertTransform ==
    /\ IsNone
    /\ \E order \in HilbertOrders :
           Construct("NewHilbertTransform", <<6 * One, order>>,
                     NewHilbertTransform(6 * One, order))

CallTick ==
    /\ IsHilbert
    /\ \E input \in TickInputs :
           LET return(r) == CallHilbert("Tick", <<input>>, r.ht, <<r.ret>>)
           IN  return(Tick(det, input))

CallResetHilbert ==
    /\ IsHilbert
    /\ CallHilbert("Reset", <<>>, ResetHilbert(det), <<>>)

CallGetGroupDelay ==
    /\ IsHilbert
    /\ Read("GetGroupDelay", GetGroupDelay(det))

CallGetCoefficients ==
    /\ IsHilbert
    /\ Read("GetCoefficients", GetCoefficients(det))

NextHilbert ==
    \/ CallNewHilbertTransform
    \/ CallTick
    \/ CallResetHilbert
    \/ CallGetGroupDelay
    \/ CallGetCoefficients

SpecHilbert == Init /\ [][NextHilbert]_vars

\* the outputs of successive Tick calls on the inputs, and the state they leave
RECURSIVE TickAll(_, _)
TickAll(ht, inputs) ==
    IF inputs = <<>>
    THEN [ht |-> ht, ret |-> <<>>]
    ELSE LET before == TickAll(ht, SubSeq(inputs, 1, Len(inputs) - 1))
             last == Tick(before.ht, inputs[Len(inputs)])
         IN  [ht |-> last.ht, ret |-> Append(before.ret, last.ret)]

\* the non-zero inputs, which a delayed output cannot confuse with a cleared
\* slot of the delay line
ProbeInputs == TickInputs \ {0}

\* on a transformer whose delay line holds zeros, the real part of the i-th
\* Tick output is the input of groupDelay ticks earlier, and 0 before that
DelaysFromZero(ht) ==
    \A inputs \in [1 .. ht.order -> ProbeInputs] :
        LET outputs == TickAll(ht, inputs).ret
        IN  \A i \in 1 .. ht.order :
                real(outputs[i]) =
                    IF i <= ht.groupDelay THEN 0 ELSE inputs[i - ht.groupDelay]

\* C27: Reset zeroes the delay line and the write index and leaves the state
\* of a freshly constructed transformer of the same order, in which the next
\* Tick(0) returns 0+0i; on a freshly constructed transformer the real part
\* of each output is the input of groupDelay ticks earlier, 0 while fewer
\* inputs have arrived; in every state the real part of a Tick output is the
\* input of groupDelay ticks earlier, and the write index stays in [0, order)
C27_ResetRestoresFreshTransformer ==
    [][ /\ det'.type = "HilbertTransform"
          => /\ 0 <= det'.writeIndex
             /\ det'.writeIndex < det'.order
             /\ det'.groupDelay = det'.order \div 2
             /\ \A inputs \in [1 .. det'.groupDelay + 1 -> ProbeInputs] :
                    real(TickAll(det', inputs).ret[det'.groupDelay + 1]) = inputs[1]
        /\ (IsHilbert /\ call'.name = "Reset")
          => /\ det'.delayLine = Zeros(det.order)
             /\ det'.writeIndex = 0
             /\ det' = NewHilbertTransform(6 * One, det.order)
             /\ Tick(det', 0).ret = complex(0, 0)
        /\ call'.name = "NewHilbertTransform" /\ ~call'.panicked
          => DelaysFromZero(det')
        /\ (IsHilbert /\ call'.name = "Tick")
          => /\ det'.writeIndex = (det.writeIndex + 1) % det.order
             /\ real(call'.ret[1]) =
                    IF det.groupDelay = 0
                    THEN call'.args[1]
                    ELSE det.delayLine[((det.writeIndex - det.groupDelay + det.order)
                                            % det.order) + 1] ]_vars

\* C27 witness: Reset was called on a transformer of order 5 whose write index
\* had advanced, after at least two other calls
C27_Witness ==
    /\ IsHilbert
    /\ call.name = "Reset"
    /\ steps >= 3
    /\ det.order = 5
    /\ det.writeIndex = 0
    /\ det.delayLine = Zeros(5)

\* ------------------------------------------------------------------------
\* SlidingFFT (package fft): a spectrum kept up to date sample by sample.
\* Slices are sequences indexed from 1: element i of the source is element
\* i + 1 here.  A complex128 of this section is a pair of floats.
\* ------------------------------------------------------------------------

\* math.Sin, by the quarter-turn shift of math.Cos
Sin(x) == Cos(x - PiOver2)

ZAdd(z, w) == complex(RAdd(real(z), real(w)), RAdd(imag(z), imag(w)))

ZSub(z, w) == complex(RSub(real(z), real(w)), RSub(imag(z), imag(w)))

\* complex128 multiplication: (a+bi)(c+di) = (ac-bd) + (ad+bc)i
ZMul(z, w) ==
    complex(RSub(RMul(real(z), real(w)), RMul(imag(z), imag(w))),
            RAdd(RMul(real(z), imag(w)), RMul(imag(z), real(w))))

\* a & b for naturals
RECURSIVE BitAnd(_, _)
BitAnd(a, b) ==
    IF a = 0 \/ b = 0
    THEN 0
    ELSE (a % 2) * (b % 2) + 2 * BitAnd(a \div 2, b \div 2)

\* windowSize & (windowSize - 1) for windowSize >= 0; 0 & -1 is 0
LowBitsOf(windowSize) ==
    IF windowSize = 0 THEN 0 ELSE BitAnd(windowSize, windowSize - 1)

\* the angle of twiddle k: -2 * pi * k / windowSize
TwiddleAngle(k, windowSize) ==
    RDiv(RMul(RMul(-Lit(2, 1), Pi), Float(k)), Float(windowSize))

NewSlidingFFT(windowSize) ==
    IF LowBitsOf(windowSize) # 0
    THEN Panic
    ELSE [type |-> "SlidingFFT",
          windowSize |-> windowSize,
          spectrum |-> [k \in 1 .. windowSize |-> complex(0, 0)],
          buffer |-> Zeros(windowSize),
          pos |-> 0,
          twiddles |-> [k \in 1 .. windowSize |->
                           complex(Cos(TwiddleAngle(k - 1, windowSize)),
                                   Sin(TwiddleAngle(k - 1, windowSize)))],
          cosTable |-> [k \in 1 .. windowSize |->
                           Cos(TwiddleAngle(k - 1, windowSize))],
          sinTable |-> [k \in 1 .. windowSize |->
                           Sin(TwiddleAngle(k - 1, windowSize))],
          normFactor |-> IF windowSize = 0 THEN Inf
                         ELSE RDiv(One, Float(windowSize))]

\* the inner loop of the bit reversal: for j >= bit { j -= bit; bit >>= 1 },
\* then j += bit
RECURSIVE NextReversed(_, _)
NextReversed(j, bit) ==
    IF j >= bit THEN NextReversed(j - bit, bit \div 2) ELSE j + bit

Swap(x, i, j) == [x EXCEPT ![i + 1] = x[j + 1], ![j + 1] = x[i + 1]]

\* the bit-reversal permutation from index i on
RECURSIVE BitReverseFrom(_, _, _)
BitReverseFrom(x, i, j) ==
    IF i >= Len(x)
    THEN x
    ELSE LET permute(r) ==
                 BitReverseFrom(IF i < r THEN Swap(x, i, r) ELSE x, i + 1, r)
         IN  permute(NextReversed(j, Len(x) \div 2))

\* one butterfly: t = x[hi] * twiddle; x[hi] = x[lo] - t; x[lo] = x[lo] + t
Butterfly(x, lo, hi, twiddle) ==
    LET apply(t) == [x EXCEPT ![hi + 1] = ZSub(x[lo + 1], t),
                              ![lo + 1] = ZAdd(x[lo + 1], t)]
    IN  apply(ZMul(x[hi + 1], twiddle))

\* the loop over j of one group of butterflies starting at i
RECURSIVE ButterflyGroup(_, _, _, _, _)
ButterflyGroup(s, x, i, length, j) ==
    IF j >= length \div 2
    THEN x
    ELSE ButterflyGroup(s,
                        Butterfly(x, i + j, i + j + length \div 2,
                                  s.twiddles[((j * (Len(x) \div length)) % Len(x)) + 1]),
                        i, length, j + 1)

\* the loop over the groups of one stage
RECURSIVE ButterflyStage(_, _, _, _)
ButterflyStage(s, x, length, i) ==
    IF i >= Len(x)
    THEN x
    ELSE ButterflyStage(s, ButterflyGroup(s, x, i, length, 0), length, i + length)

\* the loop over the stages: length = 2, 4, ..., N
RECURSIVE ButterflyStages(_, _, _)
ButterflyStages(s, x, length) ==
    IF length > Len(x)
    THEN x
    ELSE ButterflyStages(s, ButterflyStage(s, x, length, 0), 2 * length)

\* SlidingFFT.fft: the bit-reversal permutation, then the butterflies
fft(s, x) == ButterflyStages(s, BitReverseFrom(x, 1, 0), 2)

\* panics unless the samples fill the window
Initialize(s, initialSamples) ==
    IF Len(initialSamples) # s.windowSize
    THEN Panic
    ELSE [s EXCEPT !.buffer = initialSamples,
                   !.pos = 0,
                   !.spectrum = fft(s, [i \in 1 .. s.windowSize |->
                                           complex(initialSamples[i], 0)])]

\* bin k of the spectrum after the sample: (X_k + delta) * e^(j*theta_k)
UpdatedBin(s, k, delta) ==
    LET rotate(realPart, imagPart, cosVal, sinVal) ==
            complex(RSub(RMul(realPart, cosVal), RMul(imagPart, sinVal)),
                    RAdd(RMul(realPart, sinVal), RMul(imagPart, cosVal)))
    IN  rotate(RAdd(real(s.spectrum[k]), delta), imag(s.spectrum[k]),
               s.cosTable[k], s.sinTable[k])

\* in the order of the code: the oldest sample is replaced, the position
\* advances, every bin takes delta and is rotated; indexing the buffer of an
\* empty window panics
Update(s, newSample) ==
    IF s.windowSize = 0
    THEN Panic
    ELSE [s EXCEPT !.buffer[s.pos + 1] = newSample,
                   !.pos = (s.pos + 1) % s.windowSize,
                   !.spectrum = [k \in 1 .. s.windowSize |->
                                    UpdatedBin(s, k,
                                               RMul(RSub(newSample, s.buffer[s.pos + 1]),
                                                    s.normFactor))]]

GetSpectrum(s) == s.spectrum

\* the spectrum computed anew from the ring buffer, oldest sample first
recalculateSpectrum(s) ==
    [s EXCEPT !.spectrum =
        fft(s, [i \in 1 .. s.windowSize |->
                   complex(s.buffer[((s.pos + i - 1) % s.windowSize) + 1], 0)])]

\* most Initialize and Update calls on one instance
MaxUpdates == 3

\* largest window size handed to NewSlidingFFT
MaxWindow == 2

WindowSizes == 0 .. MaxWindow

\* real input samples
FFTSamples == { -One, 0, One }

IsFFT == det.type = "SlidingFFT"

\* a method call on the sliding transform; a panic ends the program and the
\* instance with it
CallFFT(name, args, next, ret) ==
    /\ steps < MaxUpdates
    /\ det' = IF next = Panic THEN NoInstance ELSE next
    /\ call' = [name |-> name, args |-> args,
                ret |-> IF next = Panic THEN <<>> ELSE ret,
                panicked |-> (next = Panic)]
    /\ steps' = IF next = Panic THEN 0 ELSE steps + 1

CallNewSlidingFFT ==
    /\ IsNone
    /\ \E windowSize \in WindowSizes :
           Construct("NewSlidingFFT", <<windowSize>>, NewSlidingFFT(windowSize))

\* Initialize with a slice that fills the window, or with one sample more
CallInitialize ==
    /\ IsFFT
    /\ \E n \in {det.windowSize, det.windowSize + 1} :
           \E initialSamples \in [1 .. n -> FFTSamples] :
               CallFFT("Initialize", <<initialSamples>>,
                       Initialize(det, initialSamples), <<>>)

CallUpdate ==
    /\ IsFFT
    /\ \E newSample \in FFTSamples :
           CallFFT("Update", <<newSample>>, Update(det, newSample), <<>>)

CallGetSpectrum ==
    /\ IsFFT
    /\ Read("GetSpectrum", GetSpectrum(det))

NextFFT ==
    \/ CallNewSlidingFFT
    \/ CallInitialize
    \/ CallUpdate
    \/ CallGetSpectrum

SpecFFT == Init /\ [][NextFFT]_vars

\* the samples of the window, oldest first
Window(s) ==
    [i \in 1 .. s.windowSize |-> s.buffer[((s.pos + i - 1) % s.windowSize) + 1]]

\* the sum of x[n] * e^(-2*pi*j*k*n/N) over the samples from n on
RECURSIVE DFTSum(_, _, _, _)
DFTSum(s, x, k, n) ==
    IF n >= Len(x)
    THEN complex(0, 0)
    ELSE ZAdd(ZMul(complex(x[n + 1], 0), s.twiddles[((k * n) % Len(x)) + 1]),
              DFTSum(s, x, k, n + 1))

\* the discrete Fourier transform of the real samples x
DFT(s, x) == [k \in 1 .. Len(x) |-> DFTSum(s, x, k - 1, 0)]

\* the stored spectrum is the transform of the window, and is what a full
\* recomputation over the ring buffer gives
SpectrumIsCurrent(s) ==
    /\ s.spectrum = DFT(s, Window(s))
    /\ s.spectrum = recalculateSpectrum(s).spectrum

\* C26: after Initialize with a full window followed by Update calls, the
\* stored spectrum, which GetSpectrum returns, is the discrete Fourier
\* transform of the window of samples taken oldest first, the spectrum
\* recalculateSpectrum computes from the ring buffer.  Stated step by step:
\* Initialize leaves such a spectrum, the Update that follows an Initialize
\* keeps it such, and GetSpectrum returns the stored spectrum.
C26_SpectrumIsDFTOfWindow ==
    [][(IsFFT /\ det'.type = "SlidingFFT" /\ ~call.panicked) =>
           /\ call'.name = "Initialize" => SpectrumIsCurrent(det')
           /\ (call.name = "Initialize" /\ call'.name = "Update")
                  => SpectrumIsCurrent(det')
           /\ call'.name = "GetSpectrum" => call'.ret = <<det.spectrum>>]_vars

====
